---- MODULE Spec2Model ----
(***************************************************************************)
(* Model of SerializationServiceV1 (src/serialization/SerializationService *)
(* .ts): the serializer registry, the precedence-based resolver and the    *)
(* Data envelope (partition hash, type id, payload).                       *)
(*                                                                         *)
(* A serializer is a record [tag, id, inst]: tag "codec" for an object     *)
(* implementing Serializer, "null" / "undefined" for the two JavaScript    *)
(* non-values a lookup can yield.  The registry maps ids to serializers,   *)
(* serializerNameToId maps names to ids.                                   *)
(***************************************************************************)
EXTENDS Integers, Sequences, FiniteSets, TLC

VARIABLES serializationConfig, registry, serializerNameToId,
          phase, registrations, op, arg, res

vars == <<serializationConfig, registry, serializerNameToId,
          phase, registrations, op, arg, res>>

(***************************************************************************)
(* Bounds of the model.                                                    *)
(***************************************************************************)
\* custom serializer ids and custom tags are drawn from 0..MaxSerializerId
MaxSerializerId == 2
\* registerSerializer calls made on a constructed service
MaxRegistrations == 1
\* nested toData calls the engine's call stack allows
StackLimit == 3

(***************************************************************************)
(* Serializers.                                                            *)
(***************************************************************************)
NullRef == [tag |-> "null", id |-> 0, inst |-> ""]
Undefined == [tag |-> "undefined", id |-> 0, inst |-> ""]
Serializer(id, inst) == [tag |-> "codec", id |-> id, inst |-> inst]

\* ids declared by the built-in serializer classes
SerializerId(inst) ==
    CASE inst = "NullSerializer" -> 0
      [] inst = "PortableSerializer" -> -1
      [] inst = "IdentifiedDataSerializableSerializer" -> -2
      [] inst = "ByteSerializer" -> -3
      [] inst = "BooleanSerializer" -> -4
      [] inst = "CharSerializer" -> -5
      [] inst = "ShortSerializer" -> -6
      [] inst = "IntegerSerializer" -> -7
      [] inst = "LongSerializer" -> -8
      [] inst = "FloatSerializer" -> -9
      [] inst = "DoubleSerializer" -> -10
      [] inst = "StringSerializer" -> -11
      [] inst = "ByteArraySerializer" -> -12
      [] inst = "BooleanArraySerializer" -> -13
      [] inst = "CharArraySerializer" -> -14
      [] inst = "ShortArraySerializer" -> -15
      [] inst = "IntegerArraySerializer" -> -16
      [] inst = "LongArraySerializer" -> -17
      [] inst = "FloatArraySerializer" -> -18
      [] inst = "DoubleArraySerializer" -> -19
      [] inst = "StringArraySerializer" -> -20
      [] inst = "UuidSerializer" -> -21
      [] inst = "JavaClassSerializer" -> -24
      [] inst = "DateSerializer" -> -25
      [] inst = "BigIntSerializer" -> -26
      [] inst = "BigDecimalSerializer" -> -27
      [] inst = "JavaArraySerializer" -> -28
      [] inst = "ArrayListSerializer" -> -29
      [] inst = "LinkedListSerializer" -> -30
      [] inst = "LocalDateSerializer" -> -51
      [] inst = "LocalTimeSerializer" -> -52
      [] inst = "LocalDateTimeSerializer" -> -53
      [] inst = "OffsetDateTimeSerializer" -> -54
      [] inst = "CompactStreamSerializer" -> -55
      [] inst = "JsonSerializer" -> -130
      [] inst = "HazelcastJsonValueSerializer" -> -130

New(inst) == Serializer(SerializerId(inst), inst)

compactStreamSerializer == New("CompactStreamSerializer")
portableSerializer == New("PortableSerializer")
identifiedSerializer == New("IdentifiedDataSerializableSerializer")

(***************************************************************************)
(* Configurations.                                                         *)
(***************************************************************************)
DefaultNumberTypes == {"double", "short", "integer", "long", "float", "byte"}

SerializerIds == 0..MaxSerializerId

\* the id of the configured global serializer: above every custom id
GlobalSerializerId == MaxSerializerId + 1

\* customSerializers lists: none, one, two distinct, a repeated id, id 0
CustomSerializerLists ==
    {<<>>, <<1>>, <<1, 1>>, <<0>>} \cup {<<1, k>> : k \in 2..MaxSerializerId}

Configs ==
    [defaultNumberType : DefaultNumberTypes,
     isBigEndian : BOOLEAN,
     jsonStringDeserializationPolicy : {"EAGER", "NO_DESERIALIZATION"},
     customSerializers : CustomSerializerLists,
     compactSerializers : {{"Employee"}},
     globalSerializer : {<<>>, <<GlobalSerializerId>>, <<1>>}]

(***************************************************************************)
(* The registry.                                                           *)
(***************************************************************************)
EmptyMap == [k \in {} |-> 0]

Put(f, k, v) == [x \in DOMAIN f \cup {k} |-> IF x = k THEN v ELSE f[x]]

\* the maps are object literals: a name that is not an own property is looked
\* up on Object.prototype
ObjectPrototype ==
    {"constructor", "hasOwnProperty", "isPrototypeOf", "propertyIsEnumerable",
     "toLocaleString", "toString", "valueOf", "__proto__", "__defineGetter__",
     "__defineSetter__", "__lookupGetter__", "__lookupSetter__"}

\* JavaScript truthiness of this.serializerNameToId[name]: an own property is a
\* number, an inherited one a function or an object
Truthy(f, k) == IF k \in DOMAIN f THEN f[k] # 0 ELSE k \in ObjectPrototype

\* registerSerializer(name, serializer) on the two maps r = [reg, names]
registerSerializer(r, name, serializer) ==
    IF r.error # ""
    THEN r
    ELSE IF Truthy(r.names, name)
    THEN [r EXCEPT !.error = "Given serializer name is already in the registry."]
    ELSE IF serializer.id \in DOMAIN r.reg
    THEN [r EXCEPT !.error = "Given serializer id is already in the registry."]
    ELSE [r EXCEPT !.names = Put(r.names, name, serializer.id),
                   !.reg = Put(r.reg, serializer.id, serializer)]

RECURSIVE registerAll(_, _)
registerAll(r, list) ==
    IF list = <<>>
    THEN r
    ELSE registerAll(registerSerializer(r, list[1][1], list[1][2]), Tail(list))

DefaultSerializers(config) ==
    << <<"string", New("StringSerializer")>>,
       <<"double", New("DoubleSerializer")>>,
       <<"byte", New("ByteSerializer")>>,
       <<"boolean", New("BooleanSerializer")>>,
       <<"null", New("NullSerializer")>>,
       <<"short", New("ShortSerializer")>>,
       <<"integer", New("IntegerSerializer")>>,
       <<"long", New("LongSerializer")>>,
       <<"float", New("FloatSerializer")>>,
       <<"char", New("CharSerializer")>>,
       <<"date", New("DateSerializer")>>,
       <<"localDate", New("LocalDateSerializer")>>,
       <<"localTime", New("LocalTimeSerializer")>>,
       <<"localDateTime", New("LocalDateTimeSerializer")>>,
       <<"offsetDateTime", New("OffsetDateTimeSerializer")>>,
       <<"byteArray", New("ByteArraySerializer")>>,
       <<"charArray", New("CharArraySerializer")>>,
       <<"booleanArray", New("BooleanArraySerializer")>>,
       <<"shortArray", New("ShortArraySerializer")>>,
       <<"integerArray", New("IntegerArraySerializer")>>,
       <<"longArray", New("LongArraySerializer")>>,
       <<"doubleArray", New("DoubleArraySerializer")>>,
       <<"stringArray", New("StringArraySerializer")>>,
       <<"javaClass", New("JavaClassSerializer")>>,
       <<"floatArray", New("FloatArraySerializer")>>,
       <<"arrayList", New("ArrayListSerializer")>>,
       <<"linkedList", New("LinkedListSerializer")>>,
       <<"uuid", New("UuidSerializer")>>,
       <<"bigDecimal", New("BigDecimalSerializer")>>,
       <<"bigint", New("BigIntSerializer")>>,
       <<"javaArray", New("JavaArraySerializer")>>,
       <<"!compact", compactStreamSerializer>>,
       <<"identified", identifiedSerializer>>,
       <<"!portable", portableSerializer>>,
       <<"!json", IF config.jsonStringDeserializationPolicy = "EAGER"
                  THEN New("JsonSerializer")
                  ELSE New("HazelcastJsonValueSerializer")>> >>

registerDefaultSerializers(r, config) == registerAll(r, DefaultSerializers(config))

Digits == <<"0", "1", "2", "3", "4", "5", "6", "7", "8", "9">>

RECURSIVE Decimal(_)
Decimal(n) == IF n < 10 THEN Digits[n + 1] ELSE Decimal(n \div 10) \o Digits[(n % 10) + 1]

\* the string '!custom' + id appends: the decimal form of the number
IdName(n) == IF n < 0 THEN "-" \o Decimal(0 - n) ELSE Decimal(n)

CustomSerializer(id) == Serializer(id, "CustomSerializer")

registerCustomSerializers(r, config) ==
    registerAll(r, [i \in DOMAIN config.customSerializers |->
                      <<"!custom" \o IdName(config.customSerializers[i]),
                        CustomSerializer(config.customSerializers[i])>>])

GlobalSerializer(id) == Serializer(id, "GlobalSerializer")

registerGlobalSerializer(r, config) ==
    IF config.globalSerializer = <<>>
    THEN r
    ELSE registerSerializer(r, "!global", GlobalSerializer(config.globalSerializer[1]))

\* the constructor: the registrations in the order it makes them
Construct(config) ==
    registerGlobalSerializer(
        registerCustomSerializers(
            registerDefaultSerializers(
                [reg |-> EmptyMap, names |-> EmptyMap, error |-> ""], config),
            config),
        config)

(***************************************************************************)
(* Values handed to the service.  kind is "undefined", "null", "object"    *)
(* (any other JavaScript value), "data" (a HeapData) or "corrupt" (what a  *)
(* serializer reads from bytes it did not write).  type is the result of   *)
(* Util.getType, elemType that of the first element of a non-empty array.  *)
(* hzCustomId, partitionKey and getPartitionHash are <<>> when the         *)
(* property is missing; partitionKey holds an index of KeyTable.           *)
(***************************************************************************)
Blank ==
    [kind |-> "object", clazz |-> "Object", methods |-> {}, numeric |-> {},
     type |-> "object", elemType |-> "", hzCustomId |-> <<>>,
     partitionKey |-> <<>>, getPartitionHash |-> <<>>, buffer |-> <<>>]

UndefinedValue == [Blank EXCEPT !.kind = "undefined", !.type = "undefined"]
NullValue == [Blank EXCEPT !.kind = "null", !.type = "null"]
Corrupt == [Blank EXCEPT !.kind = "corrupt", !.type = "corrupt"]

Scalar(type) == [Blank EXCEPT !.type = type, !.clazz = type]
Array(elemType) == [Blank EXCEPT !.type = "array", !.clazz = "Array", !.elemType = elemType]

(***************************************************************************)
(* Byte cursors (ObjectData.ts) and HeapData (HeapData.ts).  A buffer is a *)
(* sequence of cells: [byte |-> 0..255] for every byte of an int the       *)
(* service itself writes, and one cell [codec, bigEndian, obj] for the     *)
(* payload a serializer's write appends.                                   *)
(***************************************************************************)
PARTITION_HASH_OFFSET == 0
TYPE_OFFSET == 4
DATA_OFFSET == 8

\* the four bytes of a non-negative int32, most significant first
Magnitude(x) == << (x \div 16777216) % 256, (x \div 65536) % 256, (x \div 256) % 256, x % 256 >>

\* two's complement: the bytes of a negative n are the complements of those of -n-1
BytesBE(n) ==
    LET m == IF n >= 0 THEN Magnitude(n) ELSE Magnitude(-n - 1)
    IN  [i \in 1..4 |-> [byte |-> IF n >= 0 THEN m[i] ELSE 255 - m[i]]]

FromBytesBE(b) ==
    IF b[1] < 128
    THEN b[1] * 16777216 + b[2] * 65536 + b[3] * 256 + b[4]
    ELSE -((255 - b[1]) * 16777216 + (255 - b[2]) * 65536 + (255 - b[3]) * 256
           + (255 - b[4])) - 1

Reverse(s) == [i \in 1..Len(s) |-> s[Len(s) + 1 - i]]

writeIntBE(n) == BytesBE(n)
writeIntLE(n) == Reverse(BytesBE(n))
\* DataOutput.writeInt: the byte order the cursor was created with
writeInt(bigEndian, n) == IF bigEndian THEN writeIntBE(n) ELSE writeIntLE(n)

IsBytes(cells, pos) ==
    /\ Len(cells) >= pos + 4
    /\ \A i \in (pos + 1)..(pos + 4) : DOMAIN cells[i] = {"byte"}

readIntBE(cells, pos) ==
    FromBytesBE(<<cells[pos + 1].byte, cells[pos + 2].byte, cells[pos + 3].byte,
                  cells[pos + 4].byte>>)
readIntLE(cells, pos) ==
    FromBytesBE(<<cells[pos + 4].byte, cells[pos + 3].byte, cells[pos + 2].byte,
                  cells[pos + 1].byte>>)
readInt(bigEndian, cells, pos) ==
    IF bigEndian THEN readIntBE(cells, pos) ELSE readIntLE(cells, pos)

\* Serializer.write(output, object): the payload, in the cursor's byte order
write(serializer, bigEndian, object) ==
    << [codec |-> serializer, bigEndian |-> bigEndian, obj |-> object] >>

\* Serializer.read(input): inverts the same serializer's write when the
\* cursor stands at the payload and has the byte order it was written in
read(serializer, bigEndian, cells, pos) ==
    IF /\ Len(cells) > pos
       /\ DOMAIN cells[pos + 1] = {"codec", "bigEndian", "obj"}
       /\ cells[pos + 1].codec = serializer
       /\ cells[pos + 1].bigEndian = bigEndian
    THEN cells[pos + 1].obj
    ELSE Corrupt

HeapData(cells) == [Blank EXCEPT !.kind = "data", !.type = "data", !.clazz = "HeapData",
                                 !.buffer = cells]

\* the bytes a DataOutput holds after a call that returns nothing
Cursor(cells) == [Blank EXCEPT !.kind = "cursor", !.type = "cursor", !.clazz = "DataOutput",
                               !.buffer = cells]

isData(object) == object.kind = "data"

\* HeapData.getType / totalSize
getType(data) == IF IsBytes(data.buffer, TYPE_OFFSET) THEN readIntBE(data.buffer, TYPE_OFFSET) ELSE 0

\* HeapData.hashCode: a hash of the payload (MurmurHash3 in the client)
hashCode(data) ==
    IF Len(data.buffer) > DATA_OFFSET /\ "codec" \in DOMAIN data.buffer[DATA_OFFSET + 1]
    THEN 4096 + (data.buffer[DATA_OFFSET + 1].codec.id % 256)
    ELSE 4096

\* HeapData.getPartitionHash: the header's hash when it is not 0
getPartitionHash(data) ==
    IF IsBytes(data.buffer, PARTITION_HASH_OFFSET)
       /\ readIntBE(data.buffer, PARTITION_HASH_OFFSET) # 0
    THEN readIntBE(data.buffer, PARTITION_HASH_OFFSET)
    ELSE hashCode(data)

(***************************************************************************)
(* Partitioning strategies.                                                *)
(***************************************************************************)
defaultPartitionStrategy(obj) ==
    IF obj.kind \in {"null", "undefined"}
    THEN 0
    ELSE IF isData(obj)
    THEN getPartitionHash(obj)
    ELSE IF obj.getPartitionHash = <<>>
    THEN 0
    ELSE obj.getPartitionHash[1]

\* a caller's strategy that tells a Data from any other argument
byArgumentKind(obj) == IF isData(obj) THEN 11 ELSE -22

Strategies == {"default", "byArgumentKind"}

calculatePartitionHash(object, strategy) ==
    IF strategy = "default" THEN defaultPartitionStrategy(object) ELSE byArgumentKind(object)

(***************************************************************************)
(* Outcomes of a call: a returned value, a returned serializer, a thrown   *)
(* error (typeId is the id an error message names).                        *)
(***************************************************************************)
Return(v) ==
    [status |-> "return", error |-> "", message |-> "", typeId |-> 0,
     serializer |-> Undefined, value |-> <<v>>]
ReturnSerializer(s) ==
    [status |-> "return", error |-> "", message |-> "", typeId |-> 0,
     serializer |-> s, value |-> <<>>]
ReturnVoid ==
    [status |-> "return", error |-> "", message |-> "", typeId |-> 0,
     serializer |-> Undefined, value |-> <<>>]
Throw(error, message, typeId) ==
    [status |-> "throw", error |-> error, message |-> message, typeId |-> typeId,
     serializer |-> Undefined, value |-> <<>>]

(***************************************************************************)
(* The resolver.                                                           *)
(***************************************************************************)
findSerializerById(id) == IF id \in DOMAIN registry THEN registry[id] ELSE Undefined

\* mutant: the logical name "number" is looked up as it is
findSerializerByName_Unconverted(name, isArray) ==
    LET convertedName == IF name = "buffer" THEN "byteArray" ELSE name
        serializerName == convertedName \o (IF isArray THEN "Array" ELSE "")
    IN  IF serializerName \in DOMAIN serializerNameToId
        THEN findSerializerById(serializerNameToId[serializerName])
        ELSE IF serializerName \in ObjectPrototype
        THEN Undefined
        ELSE NullRef

findSerializerByName(name, isArray) ==
    LET convertedName == IF name = "number"
                         THEN serializationConfig.defaultNumberType
                         ELSE IF name = "buffer" THEN "byteArray" ELSE name
        serializerName == convertedName \o (IF isArray THEN "Array" ELSE "")
    IN  IF serializerName \in DOMAIN serializerNameToId
        THEN findSerializerById(serializerNameToId[serializerName])
        ELSE IF serializerName \in ObjectPrototype
        THEN Undefined
        ELSE NullRef

isCompactSerializable(obj) ==
    \/ obj.clazz = "CompactGenericRecordImpl"
    \/ obj.clazz \in serializationConfig.compactSerializers

isIdentifiedDataSerializable(obj) ==
    /\ {"readData", "writeData"} \subseteq obj.methods
    /\ {"factoryId", "classId"} \subseteq obj.numeric

isPortableSerializable(obj) ==
    /\ {"readPortable", "writePortable"} \subseteq obj.methods
    /\ {"factoryId", "classId"} \subseteq obj.numeric

isCustomSerializable(object) ==
    object.hzCustomId # <<>> /\ object.hzCustomId[1] >= 1

\* mutant: the portable shape is tried before the identified one
lookupDefaultSerializer_PortableFirst(obj) ==
    IF isCompactSerializable(obj)
    THEN compactStreamSerializer
    ELSE IF isPortableSerializable(obj)
    THEN portableSerializer
    ELSE IF isIdentifiedDataSerializable(obj)
    THEN identifiedSerializer
    ELSE IF obj.type = "array"
    THEN IF obj.elemType = ""
         THEN findSerializerByName("number", TRUE)
         ELSE findSerializerByName(obj.elemType, TRUE)
    ELSE findSerializerByName(obj.type, FALSE)

lookupDefaultSerializer(obj) ==
    IF isCompactSerializable(obj)
    THEN compactStreamSerializer
    ELSE IF isIdentifiedDataSerializable(obj)
    THEN identifiedSerializer
    ELSE IF isPortableSerializable(obj)
    THEN portableSerializer
    ELSE IF obj.type = "array"
    THEN IF obj.elemType = ""
         THEN findSerializerByName("number", TRUE)
         ELSE findSerializerByName(obj.elemType, TRUE)
    ELSE findSerializerByName(obj.type, FALSE)

lookupCustomSerializer(obj) ==
    IF isCustomSerializable(obj)
    THEN findSerializerById(obj.hzCustomId[1])
    ELSE NullRef

lookupGlobalSerializer == findSerializerByName("!global", FALSE)

\* each step runs only while serializer === null
findSerializerFor(obj) ==
    IF obj.kind = "undefined"
    THEN Throw("RangeError", "undefined cannot be serialized.", 0)
    ELSE LET s1 == IF obj.kind = "null" THEN findSerializerByName("null", FALSE) ELSE NullRef
         IN
         IF obj.kind = "null" /\ s1 = NullRef
         THEN Throw("TypeError", "Cannot read properties of null (reading 'constructor')", 0)
         ELSE
         LET s2 == IF s1 = NullRef THEN lookupDefaultSerializer(obj) ELSE s1
             s3 == IF s2 = NullRef THEN lookupCustomSerializer(obj) ELSE s2
             s4 == IF s3 = NullRef THEN lookupGlobalSerializer ELSE s3
             s5 == IF s4 = NullRef THEN findSerializerByName("!json", FALSE) ELSE s4
         IN  IF s5 = NullRef
             THEN Throw("RangeError", "There is no suitable serializer for the object.", 0)
             ELSE ReturnSerializer(s5)

(***************************************************************************)
(* Partition keys: the objects a value's partitionKey property may hold.   *)
(***************************************************************************)
KeyString == Scalar("string")
KeyPartitionAware == [Blank EXCEPT !.partitionKey = <<1>>, !.getPartitionHash = <<5>>]
KeyData == HeapData(writeIntBE(258) \o writeIntBE(-11)
                    \o write(New("StringSerializer"), TRUE, KeyString))
KeyUnregisteredTag == [Blank EXCEPT !.hzCustomId = <<MaxSerializerId>>]
KeyItself == [Blank EXCEPT !.partitionKey = <<5>>]

KeyTable == <<KeyString, KeyPartitionAware, KeyData, KeyUnregisteredTag, KeyItself>>

(***************************************************************************)
(* The facade's operations.                                                *)
(***************************************************************************)
\* mutant: the header is written with writeInt, in the configured byte order
toBuffer_ConfiguredOrder(hash, serializer, object) ==
    writeInt(serializationConfig.isBigEndian, hash)
    \o writeInt(serializationConfig.isBigEndian, serializer.id)
    \o write(serializer, serializationConfig.isBigEndian, object)

\* the writes toData makes on its PositionalObjectDataOutput, and toBuffer
toBuffer(hash, serializer, object) ==
    writeIntBE(hash) \o writeIntBE(serializer.id)
    \o write(serializer, serializationConfig.isBigEndian, object)

\* mutant: the strategy is applied to the value, not to its serialized key
RECURSIVE toDataAt_HashOfValue(_, _, _)
toDataAt_HashOfValue(object, partitioningStrategy, depth) ==
    IF depth > StackLimit
    THEN Throw("RangeError", "Maximum call stack size exceeded", 0)
    ELSE IF isData(object)
    THEN Return(object)
    ELSE
    LET found == findSerializerFor(object)
    IN
    IF found.status = "throw"
    THEN found
    ELSE
    LET serializer == found.serializer
        aware == object.kind # "null" /\ object.partitionKey # <<>>
        serializedPartitionKey ==
            toDataAt_HashOfValue(KeyTable[object.partitionKey[1]], "default", depth + 1)
    IN
    IF aware /\ serializedPartitionKey.status = "throw"
    THEN serializedPartitionKey
    ELSE
    LET hash == calculatePartitionHash(object, partitioningStrategy)
    IN
    IF serializer.tag # "codec"
    THEN Throw("TypeError", "Cannot read properties of undefined (reading 'id')", 0)
    ELSE Return(HeapData(toBuffer(hash, serializer, object)))

RECURSIVE toDataAt(_, _, _)
toDataAt(object, partitioningStrategy, depth) ==
    IF depth > StackLimit
    THEN Throw("RangeError", "Maximum call stack size exceeded", 0)
    ELSE IF isData(object)
    THEN Return(object)
    ELSE
    LET found == findSerializerFor(object)
    IN
    IF found.status = "throw"
    THEN found
    ELSE
    LET serializer == found.serializer
        aware == object.kind # "null" /\ object.partitionKey # <<>>
        serializedPartitionKey ==
            toDataAt(KeyTable[object.partitionKey[1]], "default", depth + 1)
    IN
    IF aware /\ serializedPartitionKey.status = "throw"
    THEN serializedPartitionKey
    ELSE
    LET hash == IF aware
                THEN calculatePartitionHash(serializedPartitionKey.value[1],
                                            partitioningStrategy)
                ELSE calculatePartitionHash(object, partitioningStrategy)
    IN
    IF serializer.tag # "codec"
    THEN Throw("TypeError", "Cannot read properties of undefined (reading 'id')", 0)
    ELSE Return(HeapData(toBuffer(hash, serializer, object)))

toData(object, partitioningStrategy) == toDataAt(object, partitioningStrategy, 1)

\* mutant: the input cursor starts at the type id, not after the header
toObject_WrongOffset(data) ==
    IF data.kind \in {"null", "undefined"}
    THEN Return(data)
    ELSE IF ~isData(data)
    THEN Return(data)
    ELSE
    LET serializer == findSerializerById(getType(data))
    IN
    IF serializer = Undefined
    THEN Throw("RangeError", "There is no suitable deserializer for data with type",
               getType(data))
    ELSE Return(read(serializer, serializationConfig.isBigEndian, data.buffer, TYPE_OFFSET))

\* mutant: the serializer found by id is used unchecked
toObject_Unchecked(data) ==
    IF data.kind \in {"null", "undefined"}
    THEN Return(data)
    ELSE IF ~isData(data)
    THEN Return(data)
    ELSE
    LET serializer == findSerializerById(getType(data))
    IN
    IF serializer = Undefined
    THEN Throw("TypeError", "Cannot read properties of undefined (reading 'read')", 0)
    ELSE Return(read(serializer, serializationConfig.isBigEndian, data.buffer, DATA_OFFSET))

toObject(data) ==
    IF data.kind \in {"null", "undefined"}
    THEN Return(data)
    ELSE IF ~isData(data)
    THEN Return(data)
    ELSE
    LET serializer == findSerializerById(getType(data))
    IN
    IF serializer = Undefined
    THEN Throw("RangeError", "There is no suitable deserializer for data with type",
               getType(data))
    ELSE Return(read(serializer, serializationConfig.isBigEndian, data.buffer, DATA_OFFSET))

\* writeObject(out, object) on a cursor out = [cells, pos, bigEndian]
writeObject(out, object) ==
    LET found == findSerializerFor(object)
    IN
    IF found.status = "throw"
    THEN found
    ELSE IF found.serializer.tag # "codec"
    THEN Throw("TypeError", "Cannot read properties of undefined (reading 'id')", 0)
    ELSE Return(Cursor(out.cells \o writeInt(out.bigEndian, found.serializer.id)
                       \o write(found.serializer, out.bigEndian, object)))

\* readObject(inp) on a cursor inp = [cells, pos, bigEndian]
readObject(inp) ==
    LET serializerId == readInt(inp.bigEndian, inp.cells, inp.pos)
        serializer == findSerializerById(serializerId)
    IN
    IF serializer.tag # "codec"
    THEN Throw("TypeError", "Cannot read properties of undefined (reading 'read')", 0)
    ELSE Return(read(serializer, inp.bigEndian, inp.cells, inp.pos + 4))

(***************************************************************************)
(* Inputs.                                                                 *)
(***************************************************************************)
Tags == {<<>>} \cup {<<n>> : n \in {0, 1, MaxSerializerId, GlobalSerializerId}}

Methods == {"readData", "writeData", "readPortable", "writePortable"}

\* <<constructor, methods, numeric properties>> of the objects tried
Shapes ==
    { <<"Object", {}, {}>>,
      <<"Object", {"readData", "writeData"}, {"factoryId", "classId"}>>,
      <<"Object", {"readPortable", "writePortable"}, {"factoryId", "classId"}>>,
      <<"Object", Methods, {"factoryId", "classId"}>>,
      <<"Object", {"readData", "writeData"}, {"factoryId"}>>,
      <<"Object", {"readData", "writePortable"}, {"factoryId", "classId"}>>,
      <<"Employee", {}, {}>>,
      <<"Employee", Methods, {"factoryId", "classId"}>>,
      <<"CompactGenericRecordImpl", {"readData", "writeData"}, {"factoryId", "classId"}>> }

Objects ==
    { [Blank EXCEPT !.clazz = s[1], !.methods = s[2], !.numeric = s[3], !.hzCustomId = t] :
        s \in Shapes, t \in Tags }

Builtins ==
    { Scalar("number"), Scalar("string"), Scalar("long"), Scalar("buffer"),
      Scalar("boolean"), Array(""), Array("number"), Array("string"), Array("object"),
      [Array("object") EXCEPT !.hzCustomId = <<1>>] }

PartitionAware ==
    { [Blank EXCEPT !.partitionKey = k, !.getPartitionHash = h] :
        k \in {<<>>} \cup {<<i>> : i \in DOMAIN KeyTable}, h \in {<<>>, <<7>>, <<-3>>} }

Values == {UndefinedValue, NullValue, KeyData} \cup Builtins \cup Objects \cup PartitionAware

\* values one serializer writes inside another's payload
Nested == {UndefinedValue, NullValue, Scalar("number"), Array(""), Blank,
           [Blank EXCEPT !.hzCustomId = <<MaxSerializerId>>]}

UnknownTypeId == 77

\* Data received from the cluster: well-formed, of an unknown type, of a
\* custom type, in the other byte order
Received ==
    { KeyData,
      HeapData(writeIntBE(0) \o writeIntBE(UnknownTypeId)
               \o write(New("StringSerializer"), TRUE, KeyString)),
      HeapData(writeIntBE(0) \o writeIntBE(1) \o write(CustomSerializer(1), TRUE, Blank)),
      HeapData(writeIntBE(0) \o writeIntBE(-7)
               \o write(New("IntegerSerializer"), FALSE, Scalar("number"))) }

NotData == {NullValue, UndefinedValue, Blank, Scalar("string")}

Outputs == {[cells |-> <<>>, pos |-> 0, bigEndian |-> b] : b \in BOOLEAN}

InputCursors ==
    { [cells |-> writeInt(b, id) \o write(New("StringSerializer"), b, KeyString),
       pos |-> 0, bigEndian |-> b] : b \in BOOLEAN, id \in {-11, UnknownTypeId} }

LateNames == {"null", "string", "late", "constructor"}
LateSerializers == {Serializer(id, "LateSerializer") : id \in {0, 1, GlobalSerializerId}}

NoCursor == [cells |-> <<>>, pos |-> 0, bigEndian |-> TRUE]
NoArg == [value |-> <<>>, strategy |-> "", name |-> "", serializer |-> Undefined,
          cursor |-> NoCursor]

(***************************************************************************)
(* The state machine.                                                      *)
(***************************************************************************)
Init ==
    \E config \in Configs :
        LET r == Construct(config)
        IN  /\ serializationConfig = config
            /\ registry = r.reg
            /\ serializerNameToId = r.names
            /\ phase = IF r.error = "" THEN "ready" ELSE "failed"
            /\ registrations = 0
            /\ op = "constructor"
            /\ arg = NoArg
            /\ res = IF r.error = "" THEN ReturnVoid ELSE Throw("RangeError", r.error, 0)

\* the caller makes one call at a time: the service is constructed and the
\* caller holds no result of an earlier call
Callable == phase = "ready" /\ op \in {"constructor", "idle"}

Frame == UNCHANGED <<serializationConfig, registry, serializerNameToId, phase, registrations>>

\* mutant: the resolver remembers the serializer it found under the kind name
FindSerializerFor_Caching ==
    \E v \in Values :
        /\ Callable
        /\ op' = "findSerializerFor"
        /\ arg' = [NoArg EXCEPT !.value = <<v>>]
        /\ res' = findSerializerFor(v)
        /\ serializerNameToId' =
             IF res'.status = "return" /\ res'.serializer.tag = "codec"
             THEN Put(serializerNameToId, v.type, res'.serializer.id)
             ELSE serializerNameToId
        /\ UNCHANGED <<serializationConfig, registry, phase, registrations>>

FindSerializerFor ==
    \E v \in Values :
        /\ Callable
        /\ op' = "findSerializerFor"
        /\ arg' = [NoArg EXCEPT !.value = <<v>>]
        /\ res' = findSerializerFor(v)
        /\ Frame

ToData ==
    \E v \in Values, strategy \in Strategies :
        /\ Callable
        /\ strategy = "default" \/ v \in PartitionAware
        /\ op' = "toData"
        /\ arg' = [NoArg EXCEPT !.value = <<v>>, !.strategy = strategy]
        /\ res' = toData(v, strategy)
        /\ Frame

\* the Data passed in: received from elsewhere, or the one toData just returned
ToObject ==
    \E d \in Received \cup NotData
             \cup (IF op = "toData" /\ res.status = "return" THEN {res.value[1]} ELSE {}) :
        /\ phase = "ready"
        /\ op \in {"constructor", "idle"} \/ (op = "toData" /\ res.status = "return" /\ d = res.value[1])
        /\ op' = "toObject"
        /\ arg' = [NoArg EXCEPT !.value = <<d>>]
        /\ res' = toObject(d)
        /\ Frame

WriteObject ==
    \E out \in Outputs, v \in Nested :
        /\ Callable
        /\ op' = "writeObject"
        /\ arg' = [NoArg EXCEPT !.value = <<v>>, !.cursor = out]
        /\ res' = writeObject(out, v)
        /\ Frame

ReadObject ==
    \E inp \in InputCursors
               \cup (IF op = "writeObject" /\ res.status = "return"
                     THEN {[cells |-> res.value[1].buffer, pos |-> 0,
                            bigEndian |-> arg.cursor.bigEndian]}
                     ELSE {}) :
        /\ phase = "ready"
        /\ \/ op \in {"constructor", "idle"}
           \/ op = "writeObject" /\ res.status = "return" /\ inp.cells = res.value[1].buffer
        /\ op' = "readObject"
        /\ arg' = [NoArg EXCEPT !.cursor = inp]
        /\ res' = readObject(inp)
        /\ Frame

\* registerSerializer called on the constructed service
RegisterSerializer ==
    \E name \in LateNames, serializer \in LateSerializers :
        LET r == registerSerializer([reg |-> registry, names |-> serializerNameToId,
                                     error |-> ""], name, serializer)
        IN  /\ Callable
            /\ registrations < MaxRegistrations
            /\ registrations' = registrations + 1
            /\ registry' = r.reg
            /\ serializerNameToId' = r.names
            /\ op' = "registerSerializer"
            /\ arg' = [NoArg EXCEPT !.name = name, !.serializer = serializer]
            /\ res' = IF r.error = "" THEN ReturnVoid ELSE Throw("RangeError", r.error, 0)
            /\ UNCHANGED <<serializationConfig, phase>>

\* passed through to the compact serializer's schema catalog
RegisterSchemaToClass ==
    \E clazz \in {"Employee"} :
        /\ Callable
        /\ op' = "registerSchemaToClass"
        /\ arg' = [NoArg EXCEPT !.name = clazz]
        /\ res' = ReturnVoid
        /\ Frame

\* the caller drops the result it holds
Discard ==
    /\ phase = "ready"
    /\ op \notin {"constructor", "idle"}
    /\ op' = "idle"
    /\ arg' = NoArg
    /\ res' = ReturnVoid
    /\ Frame

Next ==
    \/ Discard
    \/ FindSerializerFor
    \/ ToData
    \/ ToObject
    \/ WriteObject
    \/ ReadObject
    \/ RegisterSerializer
    \/ RegisterSchemaToClass

Spec == Init /\ [][Next]_vars

(***************************************************************************)
(* Properties.                                                             *)
(***************************************************************************)
Registered(serializer) ==
    /\ serializer.tag = "codec"
    /\ serializer.id \in DOMAIN registry
    /\ registry[serializer.id] = serializer

TypedFailure(r) == r.status = "throw" /\ r.error = "RangeError"

HasUnregisteredTag(v) ==
    /\ v.kind = "object"
    /\ v.hzCustomId # <<>>
    /\ v.hzCustomId[1] >= 1
    /\ v.hzCustomId[1] \notin DOMAIN registry

\* C1: for every value but undefined, findSerializerFor returns one serializer
\* of the registry or fails with a typed error, never "no serializer"; toData
\* of a value whose custom tag has no serializer returns a Data.
C1_ResolutionTotal ==
    /\ (op = "findSerializerFor" /\ arg.value[1].kind # "undefined")
         => (TypedFailure(res) \/ (res.status = "return" /\ Registered(res.serializer)))
    /\ (op = "toData" /\ HasUnregisteredTag(arg.value[1]) /\ arg.value[1].partitionKey = <<>>)
         => (res.status = "return" /\ isData(res.value[1]))

\* C2: toObject(toData(v)) = v: the type id in the header is the id of the
\* serializer findSerializerFor resolves for v, toObject finds the same
\* serializer under that id and reads the payload that follows the header.
C2_RoundTrip ==
    (op = "toData" /\ res.status = "return" /\ ~isData(arg.value[1]))
      => LET v == arg.value[1]
             data == res.value[1]
             resolved == findSerializerFor(v).serializer
         IN  /\ getType(data) = resolved.id
             /\ findSerializerById(getType(data)) = resolved
             /\ Len(data.buffer) = DATA_OFFSET + 1
             /\ data.buffer[DATA_OFFSET + 1].codec = resolved
             /\ data.buffer[DATA_OFFSET + 1].obj = v
             /\ toObject(data) = Return(v)

C2_Witness ==
    /\ op = "toData" /\ res.status = "return"
    /\ arg.value[1].hzCustomId = <<1>>
    /\ res.value[1].buffer[DATA_OFFSET + 1].codec = Serializer(1, "CustomSerializer")
    /\ ~serializationConfig.isBigEndian

\* the serializer registered under a name, Undefined when there is none
UnderName(name) ==
    IF name \in DOMAIN serializerNameToId /\ serializerNameToId[name] \in DOMAIN registry
    THEN registry[serializerNameToId[name]]
    ELSE Undefined

\* the name the default step looks a value up under
KindName(v) ==
    LET kind == IF v.type = "array" THEN (IF v.elemType = "" THEN "number" ELSE v.elemType)
                ELSE v.type
        base == IF kind = "number" THEN serializationConfig.defaultNumberType
                ELSE IF kind = "buffer" THEN "byteArray" ELSE kind
    IN  IF v.type = "array" THEN base \o "Array" ELSE base

HasMethods(v, pair) == pair \subseteq v.methods /\ v.numeric = {"factoryId", "classId"}

\* C3: the resolver is first-match-wins over undefined (fail), null, compact,
\* identified, portable, default by kind name, custom by hzCustomId, global,
\* JSON: the outcome is that of the earliest step the value satisfies, whatever
\* later steps it satisfies as well (the custom step's outcome is what the
\* registry holds under the tag).
C3_FirstMatchWins ==
    op = "findSerializerFor"
      => LET v == arg.value[1]
         IN  IF v.kind = "undefined"
             THEN TypedFailure(res)
             ELSE /\ res.status = "return"
                  /\ res.serializer =
                       IF v.kind = "null" THEN UnderName("null")
                       ELSE IF v.clazz = "CompactGenericRecordImpl"
                               \/ v.clazz \in serializationConfig.compactSerializers
                       THEN New("CompactStreamSerializer")
                       ELSE IF HasMethods(v, {"readData", "writeData"})
                       THEN New("IdentifiedDataSerializableSerializer")
                       ELSE IF HasMethods(v, {"readPortable", "writePortable"})
                       THEN New("PortableSerializer")
                       ELSE IF KindName(v) \in DOMAIN serializerNameToId
                       THEN UnderName(KindName(v))
                       ELSE IF v.hzCustomId # <<>> /\ v.hzCustomId[1] >= 1
                       THEN (IF v.hzCustomId[1] \in DOMAIN registry
                             THEN registry[v.hzCustomId[1]] ELSE Undefined)
                       ELSE IF "!global" \in DOMAIN serializerNameToId
                       THEN UnderName("!global")
                       ELSE UnderName("!json")

\* a value matching the identified, portable, custom, global and JSON steps
C3_Witness ==
    /\ op = "findSerializerFor"
    /\ arg.value[1].methods = Methods /\ arg.value[1].clazz = "Object"
    /\ arg.value[1].hzCustomId = <<1>> /\ 1 \in DOMAIN registry
    /\ "!global" \in DOMAIN serializerNameToId
    /\ res.serializer = New("IdentifiedDataSerializableSerializer")

DuplicateName == Throw("RangeError", "Given serializer name is already in the registry.", 0)
DuplicateId == Throw("RangeError", "Given serializer id is already in the registry.", 0)

\* C4: registerSerializer(name, serializer) fails with the duplicate-name error
\* whenever name is registered, whatever id it is registered with, and with the
\* duplicate-id error whenever serializer.id is registered; a failed call
\* changes neither mapping, and a call inserts both entries only otherwise.
C4_RegisterRejectsDuplicates ==
    [][op' = "registerSerializer"
         => IF arg'.name \in DOMAIN serializerNameToId
            THEN res' = DuplicateName /\ UNCHANGED <<registry, serializerNameToId>>
            ELSE IF arg'.serializer.id \in DOMAIN registry
            THEN res' = DuplicateId /\ UNCHANGED <<registry, serializerNameToId>>
            ELSE /\ res' = ReturnVoid
                 /\ serializerNameToId' = Put(serializerNameToId, arg'.name, arg'.serializer.id)
                 /\ registry' = Put(registry, arg'.serializer.id, arg'.serializer)]_vars

\* C5: every id of the registry has exactly one name mapping to it, and every
\* name maps to an id of the registry.
C5_RegistryInvariant ==
    /\ \A id \in DOMAIN registry :
         Cardinality({n \in DOMAIN serializerNameToId : serializerNameToId[n] = id}) = 1
    /\ \A n \in DOMAIN serializerNameToId : serializerNameToId[n] \in DOMAIN registry

\* the hash the default strategy yields for a value that is not a Data
AccessorHash(v) == IF v.getPartitionHash = <<>> THEN 0 ELSE v.getPartitionHash[1]

Serialized == op = "toData" /\ res.status = "return" /\ ~isData(arg.value[1])

\* C6 as claimed: partition hash, type id and payload are all written in the
\* byte order isBigEndian selects, in this order.
C6_HeaderInConfiguredOrder ==
    Serialized
      => LET buffer == res.value[1].buffer
             order == serializationConfig.isBigEndian
         IN  /\ Len(buffer) = DATA_OFFSET + 1
             /\ IsBytes(buffer, PARTITION_HASH_OFFSET) /\ IsBytes(buffer, TYPE_OFFSET)
             /\ readInt(order, buffer, TYPE_OFFSET) = findSerializerFor(arg.value[1]).serializer.id
             /\ (arg.value[1].partitionKey = <<>> /\ arg.strategy = "default")
                  => readInt(order, buffer, PARTITION_HASH_OFFSET) = AccessorHash(arg.value[1])
             /\ buffer[DATA_OFFSET + 1].bigEndian = order

\* C6 as amended: the partition hash and the type id are written big-endian
\* whatever isBigEndian is, and only the payload is written in the byte order
\* isBigEndian selects; the order is partition hash, type id, payload.
C6_HeaderBigEndian ==
    Serialized
      => LET buffer == res.value[1].buffer
         IN  /\ Len(buffer) = DATA_OFFSET + 1
             /\ IsBytes(buffer, PARTITION_HASH_OFFSET) /\ IsBytes(buffer, TYPE_OFFSET)
             /\ readIntBE(buffer, TYPE_OFFSET) = findSerializerFor(arg.value[1]).serializer.id
             /\ (arg.value[1].partitionKey = <<>> /\ arg.strategy = "default")
                  => readIntBE(buffer, PARTITION_HASH_OFFSET) = AccessorHash(arg.value[1])
             /\ buffer[DATA_OFFSET + 1].bigEndian = serializationConfig.isBigEndian

C6_Witness ==
    /\ Serialized
    /\ ~serializationConfig.isBigEndian
    /\ arg.value[1].getPartitionHash = <<7>> /\ arg.value[1].partitionKey = <<>>
    /\ readIntBE(res.value[1].buffer, PARTITION_HASH_OFFSET) = 7
    /\ readIntLE(res.value[1].buffer, TYPE_OFFSET) # readIntBE(res.value[1].buffer, TYPE_OFFSET)

PartitionAwareValue(v) == v.kind = "object" /\ v.partitionKey # <<>>

\* C7: the hash in the header is the strategy applied to toData(partitionKey)
\* when the value has a partition key, to the value itself otherwise; the
\* default strategy yields 0 unless its argument has getPartitionHash, whose
\* result it yields unchanged.
C7_PartitionHash ==
    Serialized
      => LET v == arg.value[1]
             written == readIntBE(res.value[1].buffer, PARTITION_HASH_OFFSET)
             key == toData(KeyTable[v.partitionKey[1]], "default")
         IN  IF PartitionAwareValue(v)
             THEN /\ key.status = "return" /\ isData(key.value[1])
                  /\ IF arg.strategy = "default"
                     THEN written = getPartitionHash(key.value[1])
                     ELSE written = byArgumentKind(key.value[1]) /\ written = 11
             ELSE IF arg.strategy = "default"
                  THEN written = AccessorHash(v)
                  ELSE written = -22

\* a value with its own accessor and a partition key that is a Data of hash 258
C7_Witness ==
    /\ Serialized
    /\ arg.strategy = "default"
    /\ arg.value[1].partitionKey = <<3>> /\ arg.value[1].getPartitionHash = <<7>>
    /\ readIntBE(res.value[1].buffer, PARTITION_HASH_OFFSET) = 258

\* C8 as claimed: once the service is constructed no call changes a mapping.
C8_RegistryFrozen ==
    [][phase = "ready" => UNCHANGED <<registry, serializerNameToId>>]_vars

\* C8 as amended: on a constructed service toData, toObject, writeObject,
\* readObject, registerSchemaToClass and findSerializerFor change neither
\* mapping; registerSerializer, which stays callable, is the only call that does.
C8_OnlyRegisterSerializerMutates ==
    [][(registry' # registry \/ serializerNameToId' # serializerNameToId)
         => op' = "registerSerializer"]_vars

C8_Witness ==
    /\ registrations > 0 /\ op = "toObject" /\ res.status = "return"
    /\ isData(arg.value[1])

\* C9: toObject returns null, undefined and anything that is not a Data
\* unchanged; for a Data whose type id has no serializer it throws the error
\* naming that id and reads nothing; otherwise it returns what the serializer
\* registered under the id reads from the payload.
C9_ToObject ==
    op = "toObject"
      => LET data == arg.value[1]
             typeId == readIntBE(data.buffer, TYPE_OFFSET)
         IN  IF data.kind # "data"
             THEN res = Return(data)
             ELSE IF typeId \notin DOMAIN registry
             THEN /\ res.status = "throw" /\ res.error = "RangeError"
                  /\ res.message = "There is no suitable deserializer for data with type"
                  /\ res.typeId = typeId
                  /\ res.value = <<>>
             ELSE res = Return(read(registry[typeId], serializationConfig.isBigEndian,
                                    data.buffer, DATA_OFFSET))

C9_Witness ==
    /\ op = "toObject" /\ res.status = "throw" /\ res.typeId = UnknownTypeId

ScalarSerializer(type) ==
    CASE type = "double" -> New("DoubleSerializer")
      [] type = "short" -> New("ShortSerializer")
      [] type = "integer" -> New("IntegerSerializer")
      [] type = "long" -> New("LongSerializer")
      [] type = "float" -> New("FloatSerializer")
      [] type = "byte" -> New("ByteSerializer")

ArraySerializer(type) ==
    CASE type = "double" -> New("DoubleArraySerializer")
      [] type = "short" -> New("ShortArraySerializer")
      [] type = "integer" -> New("IntegerArraySerializer")
      [] type = "long" -> New("LongArraySerializer")
      [] type = "float" -> New("FloatArraySerializer")
      [] type = "byte" -> New("ByteArraySerializer")

\* C10: under every defaultNumberType a number resolves to the serializer
\* registered under that type's name and an empty array to the one registered
\* under the name + "Array"; both names are registered in every constructed
\* service, and toObject(toData(x)) returns x.
C10_DefaultNumberType ==
    LET type == serializationConfig.defaultNumberType
    IN  /\ phase = "ready"
          => \A t \in DefaultNumberTypes :
               /\ t \in DOMAIN serializerNameToId
               /\ (t \o "Array") \in DOMAIN serializerNameToId
               /\ UnderName(t) = ScalarSerializer(t)
               /\ UnderName(t \o "Array") = ArraySerializer(t)
        /\ (op = "findSerializerFor" /\ arg.value[1] = Scalar("number"))
          => res = ReturnSerializer(ScalarSerializer(type))
        /\ (op = "findSerializerFor" /\ arg.value[1] = Array(""))
          => res = ReturnSerializer(ArraySerializer(type))
        /\ (op = "toData" /\ arg.value[1] \in {Scalar("number"), Array("")})
          => /\ res.status = "return"
             /\ getType(res.value[1])
                  = (IF arg.value[1] = Array("") THEN ArraySerializer(type)
                     ELSE ScalarSerializer(type)).id
             /\ toObject(res.value[1]) = Return(arg.value[1])

C10_Witness ==
    /\ op = "toData" /\ arg.value[1] = Array("")
    /\ serializationConfig.defaultNumberType = "long"
    /\ "!global" \in DOMAIN serializerNameToId
    /\ getType(res.value[1]) = -17

\* the chain value -> partitionKey -> partitionKey -> ... never ends
RECURSIVE ChainEnds(_, _)
ChainEnds(v, fuel) ==
    IF v.kind # "object" \/ v.partitionKey = <<>>
    THEN TRUE
    ELSE IF fuel = 0
    THEN FALSE
    ELSE ChainEnds(KeyTable[v.partitionKey[1]], fuel - 1)

CyclicChain(v) == ~ChainEnds(v, Len(KeyTable) + 1)

StackExhausted(r) ==
    r.status = "throw" /\ r.message = "Maximum call stack size exceeded"

\* C11: toData of a value whose partition-key chain is cyclic stops at a depth
\* cap of its own and throws a dedicated error; it never recurses until the
\* engine's call stack is exhausted.
C11_DepthCap ==
    (op = "toData" /\ CyclicChain(arg.value[1]))
      => (res.status = "throw" /\ ~StackExhausted(res))

NoDeserializer(typeId) ==
    Throw("RangeError", "There is no suitable deserializer for data with type", typeId)

\* C12: writeObject writes the id of the serializer findSerializerFor resolves
\* and then that serializer's payload, without a partition hash; readObject
\* reads the id and returns what the serializer registered under it reads, and
\* throws toObject's no-deserializer error when no serializer is registered
\* under the id, calling read on nothing.
C12_WriteReadObject ==
    /\ (op = "writeObject" /\ res.status = "return")
         => LET out == arg.cursor
                cells == res.value[1].buffer
                resolved == findSerializerFor(arg.value[1]).serializer
            IN  /\ Len(cells) = Len(out.cells) + 5
                /\ IsBytes(cells, Len(out.cells))
                /\ readInt(out.bigEndian, cells, Len(out.cells)) = resolved.id
                /\ cells[Len(out.cells) + 5]
                     = [codec |-> resolved, bigEndian |-> out.bigEndian, obj |-> arg.value[1]]
    /\ op = "readObject"
         => LET inp == arg.cursor
                serializerId == readInt(inp.bigEndian, inp.cells, inp.pos)
            IN  IF serializerId \in DOMAIN registry
                THEN res = Return(read(registry[serializerId], inp.bigEndian, inp.cells,
                                       inp.pos + 4))
                ELSE res = NoDeserializer(serializerId)

====
